---- MODULE Spec2Model ----
(***************************************************************************)
(* Tone-of-voice service: the expiring cache (services/cache_service.py)   *)
(* used from several threads, the tone controller                          *)
(* (controllers/tone_controller.py) whose handlers run as coroutines on    *)
(* one event loop, and the LLM service (services/llm_service.py) whose     *)
(* methods look in a cache of their own before awaiting a chain.           *)
(***************************************************************************)
EXTENDS Integers, Sequences, FiniteSets, TLC

VARIABLES now, threads, ops, cache, lock, lru, lru_info, thr, lastPut,
          brands, brand_signatures, evaluations, task, running, nreq, ncall, resp,
          drawn, created, co, last, nllm, storedBy

cacheVars == <<threads, ops, cache, lock, lru, lru_info, thr, lastPut>>
ctlVars == <<brands, brand_signatures, evaluations, task, running, nreq, ncall, resp,
             drawn, created>>
llmVars == <<co, last, nllm, storedBy>>
vars == <<now, threads, ops, cache, lock, lru, lru_info, thr, lastPut,
          brands, brand_signatures, evaluations, task, running, nreq, ncall, resp,
          drawn, created, co, last, nllm, storedBy>>

(***************************************************************************)
(* Bounds of the model.                                                    *)
(***************************************************************************)
\* clock advances per behaviour
MaxTicks == 1
\* top-level cache operations issued by all threads together
MaxOps == 3
\* distinct raw keys (texts / eval keys) per namespace
NumKeys == 2
\* distinct cached values
NumValues == 2
\* rewrite-and-evaluate requests the controller receives per behaviour
MaxReqs == 2
\* requests to the controller's other endpoints per behaviour
MaxCalls == 1
\* calls of LLMService methods per behaviour
MaxLlmCalls == 2
\* clears of the LLMService's cache per behaviour
MaxClears == 1

(***************************************************************************)
(* Program constants.                                                      *)
(***************************************************************************)
\* CacheService.default_expiry, seconds
default_expiry == 3600
\* @lru_cache(maxsize=1000)
lru_maxsize == 1000

\* Python's None as the result of a lookup; cached values are 1..NumValues
None == 0
NoThread == "free"
Threads == {"T1", "T2"}
Namespaces == {"analysis", "evaluation"}
\* the prefix argument of clear_cache: None, a namespace, or another string
NoPrefix == "None"
ClearPrefixes == {NoPrefix, "analysis", "evaluation", "other"}
RawKeys == 1..NumKeys
Values == 1..NumValues

(***************************************************************************)
(* The clock read by datetime.now().  It advances by a step that ends just *)
(* before, exactly at, or just after one expiry period; the number of      *)
(* advances made so far is recoverable from its value.                     *)
(***************************************************************************)
TickSteps == {default_expiry - 1, default_expiry, default_expiry + 1}
TicksMade == (now + default_expiry \div 2) \div default_expiry

\* hashlib.md5(data.encode()).hexdigest(): a digest of the data
md5(data) == <<"md5", data>>

\* CacheService._generate_key: f"{prefix}:{data_hash}"
generate_key(prefix, data) == [prefix |-> prefix, hash |-> md5(data)]

\* a test that every key passes
KeyStartsWithAny(key, prefix) == TRUE
\* key.startswith(f"{prefix}:"); neither a prefix nor a hex digest holds ':'
KeyStartsWith(key, prefix) == key.prefix = prefix

\* CacheService._is_expired: now > timestamp + default_expiry
is_expired(timestamp) == now > timestamp + default_expiry

(***************************************************************************)
(* CacheService: the dict _cache guarded by _lock, and the two lru_cache   *)
(* wrappers around get_cached_analysis / get_cached_evaluation.  A thread   *)
(* can be preempted between any two of the steps below.  A call is taken   *)
(* to start at its first access to shared state.                           *)
(*                                                                         *)
(* History kept for stating the properties: lastPut (the latest write of   *)
(* each key and whether that put has returned) and, in a thread's record,  *)
(* what held when its call started: latest, stale, due, sawExpired, expect, *)
(* afterPut, afterClear, afterRace; and race, whether a put has run while  *)
(* another thread's clear of another namespace was running ("racing") and  *)
(* that clear has returned ("raced").                                      *)
(***************************************************************************)
NoPut == [v |-> None, at |-> -1, done |-> FALSE]
\* afterClear of a call that does not directly follow a clear
NotCleared == "not cleared"

IdleThread ==
    [pc |-> "idle", op |-> "none", ns |-> "analysis", k |-> 1, v |-> None,
     prefix |-> NoPrefix, inner |-> FALSE, res |-> None, ret |-> None,
     stats |-> [cache_size |-> 0, expired_entries |-> 0, lru_cache_size |-> 0,
                lru_cache_hits |-> 0, lru_cache_misses |-> 0],
     latest |-> FALSE, stale |-> FALSE, due |-> FALSE, sawExpired |-> FALSE,
     expect |-> None,
     afterPut |-> None, afterClear |-> NotCleared, afterRace |-> FALSE,
     race |-> "none"]

\* the hit and miss counters of an lru_cache wrapper not called since it was
\* made or cleared
NoCalls == [hits |-> 0, misses |-> 0]

InitCache ==
    /\ ops = 0
    /\ cache = <<>>
    /\ lock = NoThread
    /\ lru = [ns \in Namespaces |-> <<>>]
    /\ lru_info = [ns \in Namespaces |-> NoCalls]
    /\ thr = [t \in Threads |-> IdleThread]
    /\ lastPut = [ns \in Namespaces |-> [k \in RawKeys |-> NoPut]]

CanStart(t) == t \in threads /\ thr[t].pc \in {"idle", "done"} /\ ops < MaxOps

\* the record of a call as it starts
Begin(t, op, ns, k, v, prefix, pc) ==
    [IdleThread EXCEPT !.pc = pc, !.op = op, !.ns = ns, !.k = k, !.v = v, !.prefix = prefix]

\* the record of a get as it starts, with what holds of its key at that moment
BeginGet(t, ns, k) ==
    LET key == generate_key(ns, k)
        p == lastPut[ns][k]
        r == thr[t]
    IN [Begin(t, "get", ns, k, None, NoPrefix, "lru_lookup") EXCEPT
          !.stale = p.at >= 0 /\ now > p.at + default_expiry,
          !.due = p.at >= 0 /\ now = p.at + default_expiry,
          !.sawExpired = key \in DOMAIN cache /\ is_expired(cache[key].timestamp),
          !.expect = IF p.done THEN p.v ELSE None,
          !.afterPut = IF r.pc = "done" /\ r.op = "put" /\ r.ns = ns /\ r.k = k
                          /\ p.at = now /\ p.done
                       THEN r.v ELSE None,
          !.afterClear = IF r.pc = "done" /\ r.op = "clear" THEN r.prefix
                         ELSE NotCleared,
          !.afterRace = \E u \in Threads :
                           /\ thr[u].pc = "done" /\ thr[u].op = "put"
                           /\ thr[u].ns = ns /\ thr[u].k = k
                           /\ thr[u].latest /\ thr[u].race = "raced"]

\* a write or a clear of key (ns, k) ends what other calls knew of that key
Forget(t, touched(_, _)) ==
    [u \in Threads |->
        IF u # t /\ touched(thr[u].ns, thr[u].k)
        THEN [thr[u] EXCEPT !.latest = FALSE, !.stale = FALSE, !.due = FALSE,
                            !.sawExpired = FALSE,
                            !.expect = None, !.afterPut = None,
                            !.afterClear = NotCleared, !.afterRace = FALSE]
        ELSE thr[u]]

\* position of raw key k in an lru memo, 0 when it holds no entry for k
MemoIndex(memo, k) ==
    IF \E i \in 1..Len(memo) : memo[i].key = k
    THEN CHOOSE i \in 1..Len(memo) : memo[i].key = k
    ELSE 0

Without(memo, i) == [j \in 1..(Len(memo) - 1) |-> IF j < i THEN memo[j] ELSE memo[j + 1]]

\* the put that thread t is finishing is still the latest write of its key
MarkPutDone(t) ==
    LET r == thr[t] IN
    IF r.op = "put" /\ r.latest
    THEN [lastPut EXCEPT ![r.ns][r.k].done = TRUE]
    ELSE lastPut

\* the lru_cache wrapper is entered by thread t, whose record is r: a memo hit
\* returns the memoized result without running the function; a miss goes on
\* to call it
LruLookupAs(t, r) ==
    LET i == MemoIndex(lru[r.ns], r.k) IN
    IF i > 0
    THEN /\ lru' = [lru EXCEPT ![r.ns] = Append(Without(@, i), lru[r.ns][i])]
         /\ lru_info' = [lru_info EXCEPT ![r.ns].hits = @ + 1]
         /\ thr' = [thr EXCEPT ![t] =
                      [r EXCEPT !.pc = "done", !.inner = FALSE,
                                !.ret = IF r.inner THEN None ELSE lru[r.ns][i].result]]
         /\ lastPut' = MarkPutDone(t)
    ELSE /\ thr' = [thr EXCEPT ![t] = [r EXCEPT !.pc = "get_lock"]]
         /\ lru_info' = [lru_info EXCEPT ![r.ns].misses = @ + 1]
         /\ UNCHANGED <<lru, lastPut>>

\* a cleared wrapper keeps its counters
counters_kept(info) == info
\* cache_clear() also sets the wrapper's hit and miss counters to zero
counters_cleared(info) == NoCalls

\* a caller invokes get_cached_analysis(text) / get_cached_evaluation(eval_key)
StartGet(t) ==
    /\ CanStart(t)
    /\ ops' = ops + 1
    /\ \E ns \in Namespaces, k \in RawKeys : LruLookupAs(t, BeginGet(t, ns, k))
    /\ UNCHANGED <<ctlVars, llmVars, now, threads, cache, lock>>

\* `with self._lock:` is entered by a get whose lru lookup missed
GetAcquire(t) ==
    /\ thr[t].pc = "get_lock"
    /\ lock = NoThread
    /\ lock' = t
    /\ thr' = [thr EXCEPT ![t].pc = "get_body"]
    /\ UNCHANGED <<ctlVars, llmVars, now, threads, ops, cache, lru, lru_info, lastPut>>

\* the body of get_cached_analysis / get_cached_evaluation under the lock
GetCached(t) ==
    LET r == thr[t]
        cache_key == generate_key(r.ns, r.k)
    IN
    /\ r.pc = "get_body"
    /\ lock = t
    /\ IF cache_key \in DOMAIN cache
       THEN IF ~is_expired(cache[cache_key].timestamp)
            THEN /\ thr' = [thr EXCEPT ![t].pc = "lru_store",
                                       ![t].res = cache[cache_key].data]
                 /\ cache' = cache
            ELSE /\ thr' = [thr EXCEPT ![t].pc = "lru_store", ![t].res = None]
                 /\ cache' = [x \in DOMAIN cache \ {cache_key} |-> cache[x]]
       ELSE /\ thr' = [thr EXCEPT ![t].pc = "lru_store", ![t].res = None]
            /\ cache' = cache
    /\ lock' = NoThread
    /\ UNCHANGED <<ctlVars, llmVars, now, threads, ops, lru, lru_info, lastPut>>

\* the wrapper memoizes the function's result, unless the key was memoized
\* meanwhile; a full memo drops its least recently used entry
LruInsert(memo, k, result) ==
    IF MemoIndex(memo, k) > 0 THEN memo
    ELSE IF Len(memo) >= lru_maxsize THEN Append(Tail(memo), [key |-> k, result |-> result])
    ELSE Append(memo, [key |-> k, result |-> result])

LruStore(t) ==
    LET r == thr[t] IN
    /\ r.pc = "lru_store"
    /\ lru' = [lru EXCEPT ![r.ns] = LruInsert(@, r.k, r.res)]
    /\ lru_info' = lru_info
    /\ thr' = [thr EXCEPT ![t].pc = "done", ![t].inner = FALSE, ![t].res = None,
                          ![t].ret = IF r.inner THEN None ELSE r.res]
    /\ lastPut' = MarkPutDone(t)
    /\ UNCHANGED <<ctlVars, llmVars, now, threads, ops, cache, lock>>

\* thread u is inside a put / inside a clear_cache of a namespace other than ns
Putting(u) == thr[u].op = "put" /\ thr[u].pc \notin {"idle", "done"}
Clearing(u, ns) ==
    /\ thr[u].op = "clear" /\ thr[u].pc \notin {"idle", "done"}
    /\ thr[u].prefix \in Namespaces \ {ns}

\* a caller invokes cache_analysis(text, v) / cache_evaluation(eval_key, v)
StartPut(t) ==
    /\ CanStart(t)
    /\ lock = NoThread
    /\ lock' = t
    /\ ops' = ops + 1
    /\ \E ns \in Namespaces, k \in RawKeys, v \in Values :
          thr' = [thr EXCEPT ![t] =
                    [Begin(t, "put", ns, k, v, NoPrefix, "put_write") EXCEPT
                        !.race = IF \E u \in Threads \ {t} : Clearing(u, ns)
                                 THEN "racing" ELSE "none"]]
    /\ UNCHANGED <<ctlVars, llmVars, now, threads, cache, lru, lru_info, lastPut>>

\* a put that writes the entry and keeps the lock for the rest of the call
CacheWriteHolding(t) ==
    LET r == thr[t]
        cache_key == generate_key(r.ns, r.k)
        SameKey(ns, k) == ns = r.ns /\ k = r.k
    IN
    /\ r.pc = "put_write"
    /\ lock = t
    /\ cache' = [x \in DOMAIN cache \cup {cache_key} |->
                   IF x = cache_key THEN [data |-> r.v, timestamp |-> now] ELSE cache[x]]
    /\ lock' = t
    /\ lastPut' = [lastPut EXCEPT ![r.ns][r.k] = [v |-> r.v, at |-> now, done |-> FALSE]]
    /\ thr' = [Forget(t, SameKey) EXCEPT ![t].pc = "put_clear", ![t].latest = TRUE]
    /\ UNCHANGED <<ctlVars, llmVars, now, threads, ops, lru, lru_info>>

\* cache_analysis / cache_evaluation: the entry is written under the lock
CacheWrite(t) ==
    LET r == thr[t]
        cache_key == generate_key(r.ns, r.k)
        SameKey(ns, k) == ns = r.ns /\ k = r.k
    IN
    /\ r.pc = "put_write"
    /\ lock = t
    /\ cache' = [x \in DOMAIN cache \cup {cache_key} |->
                   IF x = cache_key THEN [data |-> r.v, timestamp |-> now] ELSE cache[x]]
    /\ lock' = NoThread
    /\ lastPut' = [lastPut EXCEPT ![r.ns][r.k] = [v |-> r.v, at |-> now, done |-> FALSE]]
    /\ thr' = [Forget(t, SameKey) EXCEPT ![t].pc = "put_clear", ![t].latest = TRUE]
    /\ UNCHANGED <<ctlVars, llmVars, now, threads, ops, lru, lru_info>>

\* lru_cache's cache_clear()
cache_clear_skipped(memo) == memo
cache_clear(memo) == <<>>

\* "Update LRU cache": the namespace's memo is cleared, then the getter is called
PutCacheClear(t) ==
    LET r == thr[t] IN
    /\ r.pc = "put_clear"
    /\ lru' = [lru EXCEPT ![r.ns] = cache_clear(@)]
    /\ lru_info' = [lru_info EXCEPT ![r.ns] = counters_cleared(@)]
    /\ thr' = [thr EXCEPT ![t].pc = "lru_lookup", ![t].inner = TRUE]
    /\ UNCHANGED <<ctlVars, llmVars, now, threads, ops, cache, lock, lastPut>>

\* the getter called at the end of cache_analysis / cache_evaluation
LruLookup(t) ==
    /\ thr[t].pc = "lru_lookup"
    /\ LruLookupAs(t, thr[t])
    /\ UNCHANGED <<ctlVars, llmVars, now, threads, ops, cache, lock>>

\* a caller invokes clear_cache(prefix)
StartClear(t) ==
    /\ CanStart(t)
    /\ lock = NoThread
    /\ lock' = t
    /\ ops' = ops + 1
    /\ \E p \in ClearPrefixes :
          thr' = [u \in Threads |->
                    IF u = t THEN Begin(t, "clear", "analysis", 1, None, p, "clr_body")
                    ELSE IF Putting(u) /\ p \in Namespaces \ {thr[u].ns}
                    THEN [thr[u] EXCEPT !.race = "racing"]
                    ELSE thr[u]]
    /\ UNCHANGED <<ctlVars, llmVars, now, threads, cache, lru, lru_info, lastPut>>

\* every key is to be deleted
keys_to_delete_all(prefix) == DOMAIN cache
\* the keys clear_cache(prefix) collects for deletion
keys_to_delete(prefix) ==
    IF prefix # NoPrefix
    THEN {key \in DOMAIN cache : KeyStartsWith(key, prefix)}
    ELSE DOMAIN cache

\* clear_cache under the lock: the entries of one prefix, or all of them
ClearCache(t) ==
    LET r == thr[t]
        Cleared(ns, k) == r.prefix = NoPrefix \/ r.prefix = ns
    IN
    /\ r.pc = "clr_body"
    /\ lock = t
    /\ cache' = [x \in DOMAIN cache \ keys_to_delete(r.prefix) |-> cache[x]]
    /\ lock' = NoThread
    /\ lastPut' = [ns \in Namespaces |-> [k \in RawKeys |->
                      IF Cleared(ns, k) THEN NoPut ELSE lastPut[ns][k]]]
    /\ thr' = [Forget(t, Cleared) EXCEPT ![t].pc = "clr_lru_a"]
    /\ UNCHANGED <<ctlVars, llmVars, now, threads, ops, lru, lru_info>>

\* self.get_cached_analysis.cache_clear()
ClearLruAnalysis(t) ==
    /\ thr[t].pc = "clr_lru_a"
    /\ lru' = [lru EXCEPT !["analysis"] = cache_clear(@)]
    /\ lru_info' = [lru_info EXCEPT !["analysis"] = counters_cleared(@)]
    /\ thr' = [thr EXCEPT ![t].pc = "clr_lru_e"]
    /\ UNCHANGED <<ctlVars, llmVars, now, threads, ops, cache, lock, lastPut>>

\* self.get_cached_evaluation.cache_clear()
ClearLruEvaluation(t) ==
    /\ thr[t].pc = "clr_lru_e"
    /\ lru' = [lru EXCEPT !["evaluation"] = cache_clear(@)]
    /\ lru_info' = [lru_info EXCEPT !["evaluation"] = counters_cleared(@)]
    /\ thr' = [u \in Threads |->
                 IF u = t THEN [thr[t] EXCEPT !.pc = "done"]
                 ELSE IF thr[u].race = "racing" THEN [thr[u] EXCEPT !.race = "raced"]
                 ELSE thr[u]]
    /\ UNCHANGED <<ctlVars, llmVars, now, threads, ops, cache, lock, lastPut>>

\* a caller invokes get_cache_stats()
StartStats(t) ==
    /\ CanStart(t)
    /\ lock = NoThread
    /\ lock' = t
    /\ ops' = ops + 1
    /\ thr' = [thr EXCEPT ![t] = Begin(t, "stats", "analysis", 1, None, NoPrefix, "st_body")]
    /\ UNCHANGED <<ctlVars, llmVars, now, threads, cache, lru, lru_info, lastPut>>

\* the keys get_cache_stats counts as expired
ExpiredKeys == {key \in DOMAIN cache : is_expired(cache[key].timestamp)}

\* cache_info() of the wrapper of a namespace's getter
cache_info(ns) ==
    [hits |-> lru_info[ns].hits, misses |-> lru_info[ns].misses, currsize |-> Len(lru[ns])]

\* get_cache_stats under the lock
GetCacheStats(t) ==
    /\ thr[t].pc = "st_body"
    /\ lock = t
    /\ thr' = [thr EXCEPT ![t].pc = "done",
                          ![t].stats = [cache_size |-> Cardinality(DOMAIN cache),
                                        expired_entries |-> Cardinality(ExpiredKeys),
                                        lru_cache_size |-> cache_info("analysis").currsize,
                                        lru_cache_hits |-> cache_info("analysis").hits,
                                        lru_cache_misses |-> cache_info("analysis").misses]]
    /\ lock' = NoThread
    /\ UNCHANGED <<ctlVars, llmVars, now, threads, ops, cache, lru, lru_info, lastPut>>

\* time passes
Tick ==
    /\ TicksMade < MaxTicks
    /\ \E d \in TickSteps : now' = now + d
    /\ UNCHANGED <<cacheVars, ctlVars, llmVars>>

CacheNext ==
    \/ Tick
    \/ \E t \in Threads :
          \/ StartGet(t) \/ StartPut(t) \/ StartClear(t) \/ StartStats(t)
          \/ LruLookup(t) \/ GetAcquire(t) \/ GetCached(t) \/ LruStore(t)
          \/ CacheWrite(t) \/ PutCacheClear(t)
          \/ ClearCache(t) \/ ClearLruAnalysis(t) \/ ClearLruEvaluation(t)
          \/ GetCacheStats(t)

(***************************************************************************)
(* ToneController (controllers/tone_controller.py) behind the routes of    *)
(* routes/tone.py.  Every handler is a coroutine on the one event loop of  *)
(* uvicorn.run(app): `running` is the coroutine the loop is executing, and *)
(* the loop takes up another only when that one suspends or ends.  The     *)
(* collaborators of services/tone_service.py are plain blocking functions, *)
(* so a handler reaches no point at which it suspends.                     *)
(***************************************************************************)
Tasks == {1, 2}
NoTask == None
NoBrand == "None"
NoName == "None"
NoText == "None"
NoId == None
\* what a collaborator call that raised gives in place of its result
Raised == "raised"
\* brand ids that clients supply, and the ids f"brand_{uuid4().hex[:8]}" can give
BrandIds == {"acme"}
GenBrandIds == <<"brand_00000001", "brand_00000002", "brand_00000003",
                 "brand_00000004", "brand_00000005", "brand_00000006">>
BrandNames == {NoName, "Acme Corp"}
Texts == {"text 1", "text 2"}
\* what the analysis, rewrite and evaluation chains can return
Signatures == {"sig 1", "sig 2"}
Rewrites == {"rewrite 1"}
EvalOutputs == {"scores 1", "scores 2"}
\* str(uuid.uuid4())
EvalIds == 1..(MaxReqs + MaxCalls)

\* EvaluationResult: every field is declared with Field(...), so is required
EvaluationResultFields ==
    {"fluency", "authenticity", "tone_alignment", "readability", "overall_score",
     "strengths", "suggestions", "tone_characteristics_match",
     "language_pattern_consistency", "brand_voice_alignment",
     "target_audience_appeal", "detailed_feedback"}

\* the float fields constrained by ge=0, le=1 (kept in hundredths)
EvaluationResultScores ==
    {"fluency", "authenticity", "tone_alignment", "readability", "overall_score",
     "language_pattern_consistency", "brand_voice_alignment", "target_audience_appeal"}

\* pydantic accepts the keyword arguments of EvaluationResult(...)
EvaluationResultValid(kwargs) ==
    /\ EvaluationResultFields \subseteq DOMAIN kwargs
    /\ \A f \in EvaluationResultScores \cap DOMAIN kwargs :
          kwargs[f] >= 0 /\ kwargs[f] <= 100

\* the keyword arguments evaluate_text passes to EvaluationResult
EvaluateTextResult ==
    [fluency |-> 85, authenticity |-> 90, tone_alignment |-> 88, readability |-> 92,
     overall_score |-> 87, strengths |-> "defaults", suggestions |-> "defaults"]

\* the keyword arguments rewrite_and_evaluate_text passes to EvaluationResult
RewriteAndEvaluateResult ==
    [fluency |-> 85, authenticity |-> 90, tone_alignment |-> 88, readability |-> 92,
     overall_score |-> 89, strengths |-> "defaults", suggestions |-> "defaults",
     tone_characteristics_match |-> "defaults", language_pattern_consistency |-> 90,
     brand_voice_alignment |-> 88, target_audience_appeal |-> 85,
     detailed_feedback |-> "defaults"]

\* analyze_tone, rewrite_with_signature and evaluate_tone are called without
\* await: the coroutine does not suspend at the call
SuspendsAtCalls(call) == TRUE
Suspends(call) == FALSE

\* the state of one rewrite-and-evaluate coroutine: its request, its locals
\* and, once it has ended, its response.  n numbers the requests in order of
\* arrival and among is the requests in flight when this one arrived;
\* unsigned, sigStable, nAnalyze, nRewrite, analysisOk, evalsBefore and
\* sigsBefore record what the request met and did, and calls the collaborator
\* calls of the running handler, each with its arguments and what it gave.
IdleTask ==
    [pc |-> "idle", n |-> 0, among |-> {}, text |-> NoText, brand_id |-> NoBrand,
     brand_name |-> NoName, brand |-> NoBrand, signature |-> NoText, rewritten |-> NoText,
     evaluation |-> NoText, eval_id |-> NoId, status |-> 0, code |-> "",
     timestamp |-> -1,
     unsigned |-> FALSE, sigStable |-> FALSE,
     nAnalyze |-> 0, nRewrite |-> 0, analysisOk |-> FALSE,
     evalsBefore |-> <<>>, sigsBefore |-> <<>>, calls |-> <<>>]

\* the response one of the other handlers has just returned (until the loop
\* takes up a rewrite-and-evaluate coroutine again); signature is the
\* signature parameter of store_signature, evaluation is evaluate_text's
\* local, after the number of evaluations stored by then
NoResp ==
    [op |-> "none", arg |-> NoText, signature |-> NoText, status |-> 0, code |-> "",
     body |-> <<>>, evaluation |-> NoText, after |-> 0]

InitCtl ==
    /\ brands = <<>>
    /\ brand_signatures = <<>>
    /\ evaluations = <<>>
    /\ task = [r \in Tasks |-> IdleTask]
    /\ running = NoTask
    /\ nreq = 0
    /\ ncall = 0
    /\ resp = NoResp
    /\ drawn = [evals |-> {}, brands |-> {}]
    /\ created = <<>>

\* dict[key] = value, the other items dropped
PutOnly(map, key, value) == [x \in {key} |-> value]
\* dict[key] = value
Put(map, key, value) == [x \in DOMAIN map \cup {key} |-> IF x = key THEN value ELSE map[x]]

LeastOf(S) == CHOOSE x \in S : \A y \in S : x <= y

\* uuid.uuid4() returning one and the same value
uuid4_eval_fixed == LeastOf(EvalIds)
\* uuid.uuid4(): a value no earlier call returned (which one is immaterial:
\* the least unused one stands for it)
uuid4_eval == LeastOf(EvalIds \ drawn.evals)
uuid4_brand == GenBrandIds[LeastOf({i \in DOMAIN GenBrandIds : GenBrandIds[i] \notin drawn.brands})]

\* a slot is free for a new request: its last request has been answered
Free(r) == task[r].pc \in {"idle", "done", "failed"}
\* new requests take the first free slot
FirstFree(r) == Free(r) /\ \A q \in Tasks : q < r => ~Free(q)
InFlight(r) == ~Free(r)

\* the event loop can execute coroutine r
CanRun(r) == running = r \/ running = NoTask

\* the HTTPException a handler raises
Fail(rec, status, code) ==
    [rec EXCEPT !.pc = "failed", !.status = status, !.code = code,
                !.brand_name = NoName, !.rewritten = NoText, !.evaluation = NoText,
                !.evalsBefore = <<>>, !.sigsBefore = <<>>, !.calls = <<>>]

\* POST /rewrite-and-evaluate arrives: the endpoint's coroutine is created.
\* The rest of the request body is drawn where the handler first reads it.
SubmitRewriteAndEvaluate(r) ==
    /\ FirstFree(r)
    /\ nreq < MaxReqs
    /\ nreq' = nreq + 1
    /\ \E brand_id \in BrandIds \cup {NoBrand} :
          task' = [task EXCEPT ![r] =
                     [IdleTask EXCEPT !.pc = "pending",
                                      !.n = nreq + 1,
                                      !.among = {task[q].n : q \in {q \in Tasks : InFlight(q)}},
                                      !.brand_id = brand_id,
                                      !.unsigned = brand_id \notin DOMAIN brand_signatures,
                                      !.sigStable = TRUE]]
    /\ resp' = NoResp
    /\ UNCHANGED <<brands, brand_signatures, evaluations, running, ncall,
                   drawn, created, now, cacheVars, llmVars>>

\* a resolution that registers the brand anew even when it is registered
GetOrCreateBrandAnew(brand_id, brand_name) ==
    LET new_brand_id == IF brand_id # NoBrand THEN brand_id ELSE uuid4_brand IN
    [brands |-> Put(brands, new_brand_id,
                    [brand_id |-> new_brand_id,
                     name |-> IF brand_name # NoName THEN <<"", brand_name>>
                              ELSE <<"Brand ", new_brand_id>>,
                     description |-> "Automatically created brand for tone analysis",
                     created_at |-> now]),
     brand_id |-> new_brand_id,
     drawn |-> IF brand_id # NoBrand THEN drawn.brands
               ELSE drawn.brands \cup {new_brand_id}]

\* ToneController._get_or_create_brand: the brands map and the brand id
GetOrCreateBrand(brand_id, brand_name) ==
    IF brand_id # NoBrand /\ brand_id \in DOMAIN brands
    THEN [brands |-> brands, brand_id |-> brand_id, drawn |-> drawn.brands]
    ELSE LET new_brand_id == IF brand_id # NoBrand THEN brand_id ELSE uuid4_brand
             brand_info == [brand_id |-> new_brand_id,
                            name |-> IF brand_name # NoName THEN <<"", brand_name>>
                                     ELSE <<"Brand ", new_brand_id>>,
                            description |-> "Automatically created brand for tone analysis",
                            created_at |-> now]
         IN [brands |-> Put(brands, new_brand_id, brand_info),
             brand_id |-> new_brand_id,
             drawn |-> IF brand_id # NoBrand THEN drawn.brands
                       ELSE drawn.brands \cup {new_brand_id}]

\* a collaborator is called with args / the call in progress gives out
Called(calls, fn, args) == Append(calls, [fn |-> fn, args |-> args, out |-> NoText])
Returned(calls, out) == [calls EXCEPT ![Len(calls)].out = out]

\* `brand_info.brand_id not in self.brand_signatures` is false
HasSignatureNever(brand_id) == FALSE
HasSignature(brand_id) == brand_id \in DOMAIN brand_signatures

\* rewrite_and_evaluate_text runs up to its first collaborator call: the brand
\* is resolved; without a signature for it analyze_tone is called, otherwise
\* the stored signature is read and rewrite_with_signature is called
RewriteAndEvaluateStart(r) ==
    /\ task[r].pc = "pending"
    /\ CanRun(r)
    /\ \E text \in Texts, brand_name \in BrandNames :
         LET rec == task[r]
             got == GetOrCreateBrand(rec.brand_id, brand_name)
             b == got.brand_id
             base == [rec EXCEPT !.text = text, !.brand_name = brand_name, !.brand = b,
                                 !.evalsBefore = evaluations,
                                 !.sigsBefore = brand_signatures]
         IN
         /\ brands' = got.brands
         /\ drawn' = [drawn EXCEPT !.brands = got.drawn]
         /\ IF ~HasSignature(b)
            THEN /\ task' = [task EXCEPT ![r] =
                               [base EXCEPT !.pc = "analyzing", !.nAnalyze = 1,
                                            !.calls = Called(<<>>, "analyze_tone", <<text>>)]]
                 /\ running' = IF Suspends("analyze_tone") THEN NoTask ELSE r
            ELSE /\ task' = [task EXCEPT ![r] =
                               [base EXCEPT !.pc = "rewriting", !.nRewrite = 1,
                                            !.signature = brand_signatures[b].signature,
                                            !.calls = Called(<<>>, "rewrite_with_signature",
                                                             <<text, brand_signatures[b].signature>>)]]
                 /\ running' = IF Suspends("rewrite_with_signature") THEN NoTask ELSE r
    /\ resp' = NoResp
    /\ UNCHANGED <<brand_signatures, evaluations, nreq, ncall, created, now, cacheVars, llmVars>>

\* except Exception -> HTTPException(500, REWRITE_EVALUATION_ERROR)
RewriteAndEvaluateFails(r) ==
    /\ task' = [task EXCEPT ![r] = Fail(task[r], 500, "REWRITE_EVALUATION_ERROR")]
    /\ running' = NoTask

\* a signature record that does not hold the signature given
SignatureDataBlank(brand_id, signature) ==
    [brand_id |-> brand_id, signature |-> NoText, created_at |-> now, version |-> "1.0"]
\* a signature record that does not hold the time it was made at
SignatureDataUndated(brand_id, signature) ==
    [brand_id |-> brand_id, signature |-> signature, created_at |-> -1, version |-> "1.0"]
\* the record stored for a brand's signature
SignatureData(brand_id, signature) ==
    [brand_id |-> brand_id, signature |-> signature, created_at |-> now, version |-> "1.0"]

\* the signature map after analyze_tone returned or raised: whatever came
\* back is stored
AfterAnalysisStoring(brand_id, analysis) ==
    Put(brand_signatures, brand_id, SignatureData(brand_id, analysis))
\* the signature map after analyze_tone returned or raised: an exception
\* skips the assignment
AfterAnalysis(brand_id, analysis) ==
    IF analysis = Raised THEN brand_signatures
    ELSE Put(brand_signatures, brand_id, SignatureData(brand_id, analysis))

\* analyze_tone returns or raises: the signature is stored, read back, and
\* rewrite_with_signature is called
AnalyzeToneReturns(r) ==
    LET rec == task[r] IN
    /\ rec.pc = "analyzing"
    /\ CanRun(r)
    /\ \E analysis \in Signatures \cup {Raised} :
         /\ brand_signatures' = AfterAnalysis(rec.brand, analysis)
         /\ IF analysis = Raised
            THEN RewriteAndEvaluateFails(r)
            ELSE /\ task' = [task EXCEPT ![r] =
                               [rec EXCEPT !.pc = "rewriting", !.analysisOk = TRUE,
                                           !.nRewrite = 1,
                                           !.signature = brand_signatures'[rec.brand].signature,
                                           !.calls = Called(Returned(rec.calls, analysis),
                                                            "rewrite_with_signature",
                                                            <<rec.text,
                                                              brand_signatures'[rec.brand].signature>>)]]
                 /\ running' = IF Suspends("rewrite_with_signature") THEN NoTask ELSE r
    /\ resp' = NoResp
    /\ UNCHANGED <<brands, evaluations, nreq, ncall, drawn, created, now, cacheVars, llmVars>>

\* rewrite_with_signature returns or raises; evaluate_tone is called
RewriteReturns(r) ==
    LET rec == task[r] IN
    /\ rec.pc = "rewriting"
    /\ CanRun(r)
    /\ \E rewritten \in Rewrites \cup {Raised} :
         IF rewritten = Raised
         THEN RewriteAndEvaluateFails(r)
         ELSE /\ task' = [task EXCEPT ![r] =
                            [rec EXCEPT !.pc = "evaluating", !.rewritten = rewritten,
                                        !.calls = Called(Returned(rec.calls, rewritten),
                                                         "evaluate_tone",
                                                         <<rec.text, rewritten, rec.signature>>)]]
              /\ running' = IF Suspends("evaluate_tone") THEN NoTask ELSE r
    /\ resp' = NoResp
    /\ UNCHANGED <<brands, brand_signatures, evaluations, nreq, ncall,
                   drawn, created, now, cacheVars, llmVars>>

\* evaluate_tone returns or raises
EvaluateReturns(r) ==
    LET rec == task[r] IN
    /\ rec.pc = "evaluating"
    /\ CanRun(r)
    /\ \E evaluation \in EvalOutputs \cup {Raised} :
         IF evaluation = Raised
         THEN RewriteAndEvaluateFails(r)
         ELSE /\ task' = [task EXCEPT ![r] =
                            [rec EXCEPT !.pc = "storing", !.evaluation = evaluation,
                                        !.calls = Returned(rec.calls, evaluation)]]
              /\ running' = r
    /\ resp' = NoResp
    /\ UNCHANGED <<brands, brand_signatures, evaluations, nreq, ncall,
                   drawn, created, now, cacheVars, llmVars>>

\* the EvaluationResult rewrite_and_evaluate_text builds once evaluate_tone
\* has given evaluation: the literals of its constructor call
ResultFor(evaluation) == RewriteAndEvaluateResult

\* an id is drawn, the EvaluationResult is built and the evaluation stored
StoreEvaluation(r) ==
    LET rec == task[r]
        eval_id == uuid4_eval
    IN
    /\ rec.pc = "storing"
    /\ CanRun(r)
    /\ drawn' = [drawn EXCEPT !.evals = @ \cup {eval_id}]
    /\ IF EvaluationResultValid(ResultFor(rec.evaluation))
       THEN /\ evaluations' =
                  Put(evaluations, eval_id,
                      [brand_id |-> rec.brand, text |-> rec.text,
                       rewritten |-> rec.rewritten,
                       result |-> ResultFor(rec.evaluation), timestamp |-> now])
            /\ created' = Append(created, eval_id)
            /\ task' = [task EXCEPT ![r] =
                          [rec EXCEPT !.pc = "responding", !.eval_id = eval_id,
                                      !.evaluation = NoText]]
            /\ running' = r
       ELSE /\ RewriteAndEvaluateFails(r)
            /\ UNCHANGED <<evaluations, created>>
    /\ resp' = NoResp
    /\ UNCHANGED <<brands, brand_signatures, nreq, ncall, now, cacheVars, llmVars>>

\* the TextRewriteResponse is built, with a timestamp of its own, and returned
RewriteAndEvaluateResponds(r) ==
    LET rec == task[r] IN
    /\ rec.pc = "responding"
    /\ CanRun(r)
    /\ task' = [task EXCEPT ![r] =
                  [rec EXCEPT !.pc = "done", !.status = 200, !.timestamp = now,
                              !.brand_name = NoName, !.evalsBefore = <<>>, !.sigsBefore = <<>>, !.calls = <<>>]]
    /\ running' = NoTask
    /\ resp' = NoResp
    /\ UNCHANGED <<brands, brand_signatures, evaluations, nreq, ncall,
                   drawn, created, now, cacheVars, llmVars>>

\* the other handlers have no collaborator call followed by more work on the
\* controller's maps: each runs as one step, when the loop is free
CanServe == running = NoTask /\ ncall < MaxCalls

\* arg is the path parameter of the request, where it has one
Respond(op, arg, status, code, body, evaluation) ==
    [op |-> op, arg |-> arg, signature |-> NoText, status |-> status, code |-> code,
     body |-> body, evaluation |-> evaluation, after |-> Len(created)]

\* analyze_text: analyze_tone returns or raises
AnalyzeText ==
    /\ CanServe
    /\ ncall' = ncall + 1
    /\ \E text \in Texts, analysis \in Signatures \cup {Raised} :
         resp' = IF analysis = Raised
                 THEN Respond("analyze_text", NoText, 500, "ANALYSIS_ERROR", <<>>, NoText)
                 ELSE Respond("analyze_text", NoText, 200, "",
                              [signature |-> analysis, confidence |-> 95], NoText)
    /\ UNCHANGED <<brands, brand_signatures, evaluations, task, running, nreq,
                   drawn, created, now, cacheVars, llmVars>>

\* rewrite_text: rewrite_with_signature returns or raises
RewriteText ==
    /\ CanServe
    /\ ncall' = ncall + 1
    /\ \E text \in Texts, rewritten \in Rewrites \cup {Raised} :
         resp' = IF rewritten = Raised
                 THEN Respond("rewrite_text", NoText, 500, "REWRITE_ERROR", <<>>, NoText)
                 ELSE Respond("rewrite_text", NoText, 200, "",
                              [rewritten_text |-> rewritten], NoText)
    /\ UNCHANGED <<brands, brand_signatures, evaluations, task, running, nreq,
                   drawn, created, now, cacheVars, llmVars>>

\* reject_text
RejectText ==
    /\ CanServe
    /\ ncall' = ncall + 1
    /\ \E text \in Texts :
         resp' = Respond("reject_text", NoText, 200, "",
                         [status |-> "rejected", text |-> text], NoText)
    /\ UNCHANGED <<brands, brand_signatures, evaluations, task, running, nreq,
                   drawn, created, now, cacheVars, llmVars>>

\* evaluate_text: evaluate_tone returns or raises; an id is drawn, the
\* EvaluationResult is built, the evaluation stored and returned
EvaluateText ==
    /\ CanServe
    /\ ncall' = ncall + 1
    /\ \E brand_id \in BrandIds, text \in Texts, rewritten \in Rewrites,
          evaluation \in EvalOutputs \cup {Raised} :
         LET eval_id == uuid4_eval IN
         IF evaluation = Raised
         THEN /\ resp' = Respond("evaluate_text", NoText, 500, "EVALUATION_ERROR", <<>>, NoText)
              /\ UNCHANGED <<evaluations, drawn, created>>
         ELSE /\ drawn' = [drawn EXCEPT !.evals = @ \cup {eval_id}]
              /\ IF EvaluationResultValid(EvaluateTextResult)
                 THEN /\ evaluations' =
                            Put(evaluations, eval_id,
                                [brand_id |-> brand_id, text |-> text,
                                 rewritten |-> rewritten,
                                 result |-> EvaluateTextResult, timestamp |-> now])
                      /\ created' = Append(created, eval_id)
                      /\ resp' = Respond("evaluate_text", NoText, 200, "",
                                         [evaluation_id |-> eval_id, brand_id |-> brand_id,
                                          timestamp |-> now, original_text |-> text,
                                          rewritten_text |-> rewritten,
                                          result |-> EvaluateTextResult], evaluation)
                 ELSE /\ resp' = Respond("evaluate_text", NoText, 500, "EVALUATION_ERROR",
                                         <<>>, evaluation)
                      /\ UNCHANGED <<evaluations, created>>
    /\ UNCHANGED <<brands, brand_signatures, task, running, nreq, now, cacheVars, llmVars>>

\* get_signature answering for a brand without a signature
get_signature_default(brand_id) ==
    [status |-> 200, code |-> "", body |-> SignatureData(brand_id, NoText)]
\* what get_signature(brand_id) returns or raises
get_signature(brand_id) ==
    IF brand_id \notin DOMAIN brand_signatures
    THEN [status |-> 404, code |-> "SIGNATURE_NOT_FOUND", body |-> <<>>]
    ELSE [status |-> 200, code |-> "", body |-> brand_signatures[brand_id]]

\* GET /signature/{brand_id}
GetSignature ==
    /\ CanServe
    /\ ncall' = ncall + 1
    /\ \E brand_id \in BrandIds \cup {GenBrandIds[1]} :
         LET got == get_signature(brand_id) IN
         resp' = Respond("get_signature", brand_id, got.status, got.code, got.body, NoText)
    /\ UNCHANGED <<brands, brand_signatures, evaluations, task, running, nreq,
                   drawn, created, now, cacheVars, llmVars>>

\* what get_evaluation(eval_id) returns or raises; the stored result goes
\* through EvaluationResult(**...) again, outside any try
get_evaluation(eval_id) ==
    IF eval_id \notin DOMAIN evaluations
    THEN [status |-> 404, code |-> "EVALUATION_NOT_FOUND", body |-> <<>>]
    ELSE LET eval_data == evaluations[eval_id] IN
         IF ~EvaluationResultValid(eval_data.result)
         THEN [status |-> 500, code |-> "", body |-> <<>>]
         ELSE [status |-> 200, code |-> "",
               body |-> [evaluation_id |-> eval_id, brand_id |-> eval_data.brand_id,
                         timestamp |-> eval_data.timestamp,
                         original_text |-> eval_data.text,
                         rewritten_text |-> eval_data.rewritten,
                         result |-> eval_data.result]]

\* GET /evaluation/{eval_id}
GetEvaluation ==
    /\ CanServe
    /\ ncall' = ncall + 1
    /\ \E eval_id \in EvalIds :
         LET got == get_evaluation(eval_id) IN
         resp' = Respond("get_evaluation", eval_id, got.status, got.code, got.body, NoText)
    /\ UNCHANGED <<brands, brand_signatures, evaluations, task, running, nreq,
                   drawn, created, now, cacheVars, llmVars>>

\* store_signature: the brand's signature is created or replaced.  A request
\* in flight for that brand no longer has the signature it arrived to.
StoreSignature ==
    /\ CanServe
    /\ ncall' = ncall + 1
    /\ \E brand_id \in BrandIds, signature \in Signatures :
         /\ brand_signatures' =
               Put(brand_signatures, brand_id, SignatureData(brand_id, signature))
         /\ resp' = [Respond("store_signature", brand_id, 200, "",
                             SignatureData(brand_id, signature), NoText)
                        EXCEPT !.signature = signature]
         /\ task' = [r \in Tasks |->
                       IF InFlight(r) /\ brand_id \in {task[r].brand_id, task[r].brand}
                       THEN [task[r] EXCEPT !.sigStable = FALSE]
                       ELSE task[r]]
    /\ UNCHANGED <<brands, evaluations, running, nreq, drawn, created, now, cacheVars, llmVars>>

\* a second passes on the clock the controller stamps its records with
TickSecond ==
    /\ now < MaxTicks
    /\ now' = now + 1
    /\ UNCHANGED <<cacheVars, ctlVars, llmVars>>

CtlNext ==
    \/ TickSecond
    \/ \E r \in Tasks :
        \/ SubmitRewriteAndEvaluate(r)
        \/ RewriteAndEvaluateStart(r)
        \/ AnalyzeToneReturns(r)
        \/ RewriteReturns(r)
        \/ EvaluateReturns(r)
        \/ StoreEvaluation(r)
        \/ RewriteAndEvaluateResponds(r)
    \/ AnalyzeText
    \/ RewriteText
    \/ RejectText
    \/ EvaluateText
    \/ GetSignature
    \/ GetEvaluation
    \/ StoreSignature

(***************************************************************************)
(* LLMService (services/llm_service.py): analyze_tone, rewrite_text and    *)
(* evaluate_text are coroutines that look in the service's own             *)
(* CacheService, await a chain on a miss, and cache what the chain gave.   *)
(* They suspend only at `await chain.ainvoke(...)`; the cache calls are    *)
(* plain calls made from the event loop's thread, so each runs to its end  *)
(* before any other coroutine goes on.                                     *)
(*                                                                         *)
(* History kept for stating the properties: in a call's record, invoked    *)
(* (the chain was called), content (what the chain gave), stored (the call *)
(* put an entry in the cache), began (the time of the call), prev (the     *)
(* call that had completed last when this one started) and from (the call  *)
(* that wrote the entry a cache hit was served from); last is the call     *)
(* that completed last, forgotten when the cache is cleared from outside;  *)
(* storedBy is, for each key of the store, the call that wrote its entry.  *)
(***************************************************************************)
Coros == {1, 2}
\* None as the result of a cache lookup; like {} it is falsy
Nothing == <<>>
\* texts, signatures and keyword lists that callers pass
LlmTexts == {"a", "a:b"}
LlmSignatures == {"c", "b:c"}
KeywordLists == {<<>>, <<"k">>}
EvalSignatures == {"", "k"}

\* the fields of ToneCharacteristics with the values its validators and enums
\* accept, and the defaults of _parse_analysis_result
ToneCharacteristicsFields ==
    {"tone", "language_style", "formality_level", "address_style", "emotional_appeal"}
ToneCharacteristicsAccepts ==
    [tone |-> {"formal", "casual", "friendly", "professional", "authoritative",
               "warm", "direct"},
     language_style |-> {"technical", "conversational", "academic", "professional",
                         "creative"},
     formality_level |-> {"formal", "semi-formal", "informal"},
     address_style |-> {"direct", "indirect", "personal", "impersonal", "collective"},
     emotional_appeal |-> {"rational", "emotional", "inspirational", "humorous",
                           "authoritative"}]
default_characteristics ==
    [tone |-> "formal", language_style |-> "professional", formality_level |-> "formal",
     address_style |-> "direct", emotional_appeal |-> "rational"]
\* the defaults of _parse_evaluation_result (scores in hundredths)
default_evaluation ==
    [tone_alignment |-> 85, language_consistency |-> 90, formality_match |-> 88,
     address_appropriateness |-> 92, emotional_effectiveness |-> 87,
     strengths |-> <<"Maintains brand voice", "Clear and concise">>,
     improvements |-> <<"Consider more formal language", "Add more emotional appeal">>]

\* result.content of a chain: a JSON object (obj holds its members), JSON
\* that is not an object, or text that is not JSON
JsonObject(obj) == [kind |-> "object", obj |-> obj]
JsonArray == [kind |-> "array", obj |-> <<>>]
NotJson == [kind |-> "text", obj |-> <<>>]
NoContent == [kind |-> "none", obj |-> <<>>]
ChainRaised == [kind |-> "raised", obj |-> <<>>]

AnalysisContents ==
    {JsonObject([tone |-> "casual", language_style |-> "creative",
                 formality_level |-> "informal", address_style |-> "personal",
                 emotional_appeal |-> "humorous"]),
     JsonObject([tone |-> "warm"]),
     JsonObject([tone |-> "angry"]),
     JsonArray, NotJson}
EvaluationContents ==
    {JsonObject([tone_alignment |-> 50, language_consistency |-> 50,
                 formality_match |-> 50, address_appropriateness |-> 50,
                 emotional_effectiveness |-> 50, strengths |-> <<"s">>,
                 improvements |-> <<"i">>]),
     JsonObject([tone_alignment |-> 10]),
     JsonArray, NotJson}
\* the rewrite chain's content, character by character
RewriteContents == {<<"r", "1">>, <<" ", "r", "2", " ">>, <<" ">>}

\* dict.get(field, default)
DictGet(d, field, default) == IF field \in DOMAIN d THEN d[field] ELSE default

\* str.strip()
RECURSIVE lstrip(_)
lstrip(s) == IF s # <<>> /\ Head(s) = " " THEN lstrip(Tail(s)) ELSE s
RECURSIVE rstrip(_)
rstrip(s) == IF s # <<>> /\ s[Len(s)] = " " THEN rstrip(SubSeq(s, 1, Len(s) - 1)) ELSE s
strip(s) == rstrip(lstrip(s))

\* sep.join(items)
RECURSIVE join(_, _)
join(sep, items) ==
    IF items = <<>> THEN ""
    ELSE IF Len(items) = 1 THEN items[1]
    ELSE items[1] \o sep \o join(sep, Tail(items))

\* what a parse gives: a value, or an exception that leaves the method
Parsed(value) == [raised |-> FALSE, value |-> value]
ParseRaises == [raised |-> TRUE, value |-> Nothing]

\* ToneCharacteristics(**characteristics) passes validation
ToneCharacteristicsValid(ch) ==
    \A f \in ToneCharacteristicsFields : ch[f] \in ToneCharacteristicsAccepts[f]

\* LLMService._parse_analysis_result
parse_analysis_result(content) ==
    IF content.kind = "text" THEN Parsed(default_characteristics)
    ELSE IF content.kind # "object" THEN ParseRaises
    ELSE LET characteristics ==
                 [f \in ToneCharacteristicsFields |->
                     DictGet(content.obj, f, default_characteristics[f])]
         IN IF ToneCharacteristicsValid(characteristics)
            THEN Parsed(characteristics) ELSE ParseRaises

\* LLMService._parse_evaluation_result
parse_evaluation_result(content) ==
    IF content.kind = "text" THEN Parsed(default_evaluation)
    ELSE IF content.kind # "object" THEN ParseRaises
    ELSE Parsed([f \in DOMAIN default_evaluation |->
                    DictGet(content.obj, f, default_evaluation[f])])

\* the cache keys rewrite_text and evaluate_text build
rewrite_key(text, signature, preserve_keywords) ==
    text \o ":" \o signature \o ":" \o join(",", preserve_keywords)
evaluate_key(original, rewritten, signature) ==
    original \o ":" \o rewritten \o ":" \o signature

\* `if cached_result:`
Truthy(x) == x # Nothing

\* get_cached_analysis / get_cached_evaluation run to their end on cache c and
\* memo: what they return and what they leave behind
lru_get(c, memo, info, ns, text) ==
    LET i == MemoIndex(memo, text)
        cache_key == generate_key(ns, text)
        missed == [info EXCEPT !.misses = @ + 1]
    IN IF i > 0
       THEN [ret |-> memo[i].result, cache |-> c, memo |-> Append(Without(memo, i), memo[i]),
             info |-> [info EXCEPT !.hits = @ + 1]]
       ELSE IF cache_key \in DOMAIN c
       THEN IF ~is_expired(c[cache_key].timestamp)
            THEN [ret |-> c[cache_key].data, cache |-> c,
                  memo |-> LruInsert(memo, text, c[cache_key].data), info |-> missed]
            ELSE [ret |-> Nothing, cache |-> [x \in DOMAIN c \ {cache_key} |-> c[x]],
                  memo |-> LruInsert(memo, text, Nothing), info |-> missed]
       ELSE [ret |-> Nothing, cache |-> c, memo |-> LruInsert(memo, text, Nothing),
             info |-> missed]

\* a put that writes no entry
cache_put_nothing(c, memo, info, ns, text, v) ==
    lru_get(c, cache_clear(memo), counters_cleared(info), ns, text)
\* cache_analysis / cache_evaluation run to their end: the entry is written,
\* the memo cleared and the getter called
cache_put(c, memo, info, ns, text, v) ==
    LET cache_key == generate_key(ns, text)
        written == [x \in DOMAIN c \cup {cache_key} |->
                      IF x = cache_key THEN [data |-> v, timestamp |-> now] ELSE c[x]]
    IN lru_get(written, cache_clear(memo), counters_cleared(info), ns, text)

NoCall ==
    [op |-> "none", args |-> <<>>, key |-> "", ret |-> Nothing, raised |-> FALSE,
     invoked |-> FALSE, at |-> -1]
\* from of a call that was not served from the cache
NoSource == [op |-> "none", args |-> <<>>]
IdleCoro ==
    [pc |-> "idle", op |-> "none", ns |-> "analysis", args |-> <<>>, key |-> "",
     invoked |-> FALSE, content |-> NoContent, ret |-> Nothing, raised |-> FALSE,
     stored |-> FALSE, began |-> 0, prev |-> NoCall, from |-> NoSource]

InitLlm ==
    /\ co = [c \in Coros |-> IdleCoro]
    /\ last = NoCall
    /\ nllm = [calls |-> 0, clears |-> 0]
    /\ storedBy = <<>>

\* the call of coroutine record rec, as the next call will remember it
AsLast(rec) ==
    [op |-> rec.op, args |-> rec.args, key |-> rec.key, ret |-> rec.ret,
     raised |-> rec.raised, invoked |-> rec.invoked, at |-> now]

\* what a method returns on a cache hit: rewrite_text returns
\* cached_result.get("rewritten_text", ""), the others cached_result
OnHit(op, cached_result) ==
    IF op = "rewrite_text" THEN DictGet(cached_result, "rewritten_text", <<>>)
    ELSE cached_result

\* a coroutine can be created for a new call; it takes the first free slot
CanCall(c) ==
    /\ co[c].pc \in {"idle", "done"}
    /\ \A d \in Coros : d < c => co[d].pc = "awaiting"
    /\ nllm.calls < MaxLlmCalls

\* a method of LLMService runs from its call with args up to the return on a
\* cache hit, or to the await of the chain on a miss
LlmCall(c, op, ns, args, key) ==
    LET got == lru_get(cache, lru[ns], lru_info[ns], ns, key)
        rec == [IdleCoro EXCEPT !.op = op, !.ns = ns, !.args = args, !.key = key,
                                !.began = now, !.prev = last]
    IN
    /\ cache' = got.cache
    /\ lru' = [lru EXCEPT ![ns] = got.memo]
    /\ lru_info' = [lru_info EXCEPT ![ns] = got.info]
    /\ storedBy' = storedBy
    /\ IF Truthy(got.ret)
       THEN LET done == [rec EXCEPT !.pc = "done", !.ret = OnHit(op, got.ret),
                                    !.from = storedBy[generate_key(ns, key)]] IN
            /\ co' = [co EXCEPT ![c] = done]
            /\ last' = AsLast(done)
       ELSE /\ co' = [co EXCEPT ![c] = [rec EXCEPT !.pc = "awaiting", !.invoked = TRUE]]
            /\ last' = last

\* LLMService.analyze_tone(text)
analyze_tone(c) ==
    /\ CanCall(c)
    /\ nllm' = [nllm EXCEPT !.calls = @ + 1]
    /\ \E text \in LlmTexts :
         LlmCall(c, "analyze_tone", "analysis", <<text>>, text)
    /\ UNCHANGED <<now, threads, ops, lock, thr, lastPut, ctlVars>>

\* LLMService.rewrite_text(text, signature, preserve_keywords)
rewrite_text(c) ==
    /\ CanCall(c)
    /\ nllm' = [nllm EXCEPT !.calls = @ + 1]
    /\ \E text \in LlmTexts, signature \in LlmSignatures,
          preserve_keywords \in KeywordLists :
         LlmCall(c, "rewrite_text", "evaluation", <<text, signature, preserve_keywords>>,
                 rewrite_key(text, signature, preserve_keywords))
    /\ UNCHANGED <<now, threads, ops, lock, thr, lastPut, ctlVars>>

\* LLMService.evaluate_text(original, rewritten, signature)
evaluate_text(c) ==
    /\ CanCall(c)
    /\ nllm' = [nllm EXCEPT !.calls = @ + 1]
    /\ \E original \in LlmTexts, rewritten \in LlmSignatures,
          signature \in EvalSignatures :
         LlmCall(c, "evaluate_text", "evaluation", <<original, rewritten, signature>>,
                 evaluate_key(original, rewritten, signature))
    /\ UNCHANGED <<now, threads, ops, lock, thr, lastPut, ctlVars>>

\* the awaited chain gave content, from which the method made result: the
\* result is cached and returned, or the method raises
ChainReturns(c, content, result) ==
    LET rec == co[c] IN
    IF result.raised
    THEN LET done == [rec EXCEPT !.pc = "done", !.content = content, !.raised = TRUE] IN
         /\ co' = [co EXCEPT ![c] = done]
         /\ last' = AsLast(done)
         /\ UNCHANGED <<cache, lru, lru_info, storedBy>>
    ELSE LET put == cache_put(cache, lru[rec.ns], lru_info[rec.ns], rec.ns, rec.key,
                              result.value)
             done == [rec EXCEPT !.pc = "done", !.content = content, !.stored = TRUE,
                                 !.ret = IF rec.op = "rewrite_text"
                                         THEN result.value.rewritten_text
                                         ELSE result.value]
         IN /\ co' = [co EXCEPT ![c] = done]
            /\ last' = AsLast(done)
            /\ cache' = put.cache
            /\ lru' = [lru EXCEPT ![rec.ns] = put.memo]
            /\ lru_info' = [lru_info EXCEPT ![rec.ns] = put.info]
            /\ storedBy' = Put(storedBy, generate_key(rec.ns, rec.key),
                               [op |-> rec.op, args |-> rec.args])

\* `await self.analysis_chain.ainvoke(...)` returns or raises
AnalysisChainReturns(c) ==
    /\ co[c].pc = "awaiting" /\ co[c].op = "analyze_tone"
    /\ \E content \in AnalysisContents \cup {ChainRaised} :
         ChainReturns(c, content,
                      IF content = ChainRaised THEN ParseRaises
                      ELSE parse_analysis_result(content))
    /\ UNCHANGED <<now, threads, ops, lock, thr, lastPut, ctlVars, nllm>>

\* `await self.rewrite_chain.ainvoke(...)` returns or raises
RewriteChainReturns(c) ==
    /\ co[c].pc = "awaiting" /\ co[c].op = "rewrite_text"
    /\ \E content \in {[kind |-> "text", obj |-> chars] : chars \in RewriteContents}
                       \cup {ChainRaised} :
         ChainReturns(c, content,
                      IF content = ChainRaised THEN ParseRaises
                      ELSE Parsed([rewritten_text |-> strip(content.obj)]))
    /\ UNCHANGED <<now, threads, ops, lock, thr, lastPut, ctlVars, nllm>>

\* `await self.evaluation_chain.ainvoke(...)` returns or raises
EvaluationChainReturns(c) ==
    /\ co[c].pc = "awaiting" /\ co[c].op = "evaluate_text"
    /\ \E content \in EvaluationContents \cup {ChainRaised} :
         ChainReturns(c, content,
                      IF content = ChainRaised THEN ParseRaises
                      ELSE parse_evaluation_result(content))
    /\ UNCHANGED <<now, threads, ops, lock, thr, lastPut, ctlVars, nllm>>

\* the service's cache is cleared from outside: clear_cache(prefix) runs to
\* its end
LlmClearCache ==
    /\ nllm.clears < MaxClears
    /\ nllm' = [nllm EXCEPT !.clears = @ + 1]
    /\ \E prefix \in {NoPrefix, "evaluation"} :
         /\ cache' = [x \in DOMAIN cache \ keys_to_delete(prefix) |-> cache[x]]
         /\ storedBy' = [x \in {key \in DOMAIN storedBy :
                                   prefix # NoPrefix /\ ~KeyStartsWith(key, prefix)} |->
                            storedBy[x]]
    /\ lru' = [ns \in Namespaces |-> cache_clear(lru[ns])]
    /\ lru_info' = [ns \in Namespaces |-> counters_cleared(lru_info[ns])]
    /\ last' = NoCall
    /\ UNCHANGED <<now, threads, ops, lock, thr, lastPut, ctlVars, co>>

LlmNext ==
    \/ Tick
    \/ LlmClearCache
    \/ \E c \in Coros :
        \/ analyze_tone(c) \/ rewrite_text(c) \/ evaluate_text(c)
        \/ AnalysisChainReturns(c) \/ RewriteChainReturns(c) \/ EvaluationChainReturns(c)

(***************************************************************************)
(* Specifications.  The cache and the controller share no state (the       *)
(* controller calls services/tone_service.py, which does not use the       *)
(* cache), and the LLM service is used by neither, so each is also         *)
(* explored on its own.                                                    *)
(***************************************************************************)
\* one thread uses the cache
InitSeq == now = 0 /\ threads = {"T1"} /\ InitCache /\ InitCtl /\ InitLlm
\* two threads use the cache
Init == now = 0 /\ threads = Threads /\ InitCache /\ InitCtl /\ InitLlm
Next == CacheNext \/ CtlNext \/ LlmNext
SpecCacheSeq == InitSeq /\ [][CacheNext]_vars
SpecCache == Init /\ [][CacheNext]_vars
SpecCtl == Init /\ [][CtlNext]_vars
SpecLlm == Init /\ [][LlmNext]_vars
Spec == Init /\ [][Next]_vars

\* The threads calling one CacheService while the clock stands still.  The
\* scheduler lets every thread that is inside a call and able to take its
\* next step take it eventually; nothing obliges a caller to start a call.
StartCall(t) == StartGet(t) \/ StartPut(t) \/ StartClear(t) \/ StartStats(t)
Continue(t) ==
    \/ LruLookup(t) \/ GetAcquire(t) \/ GetCached(t) \/ LruStore(t)
    \/ CacheWrite(t) \/ PutCacheClear(t)
    \/ ClearCache(t) \/ ClearLruAnalysis(t) \/ ClearLruEvaluation(t)
    \/ GetCacheStats(t)
CacheLiveNext == \E t \in Threads : StartCall(t) \/ Continue(t)
SpecCacheLive ==
    Init /\ [][CacheLiveNext]_vars /\ \A t \in Threads : WF_vars(Continue(t))

(***************************************************************************)
(* Properties of the cache.                                                *)
(***************************************************************************)
GetDone(t) == thr[t].pc = "done" /\ thr[t].op = "get"

\* C1: a get issued more than default_expiry seconds after the most recent
\* put of its key returns None, whatever gets, puts of other keys or stats
\* calls came in between.
C1_GetAfterTtlIsAbsent ==
    \A t \in Threads : GetDone(t) /\ thr[t].stale => thr[t].ret = None

\* C2: in a single thread, put(ns, k, v) followed immediately by get(ns, k)
\* returns exactly v, in both namespaces and after any earlier history.
C2_PutThenGetReturnsValue ==
    \A t \in Threads :
        threads = {t} /\ GetDone(t) /\ thr[t].afterPut # None
            => thr[t].ret = thr[t].afterPut

\* a get that directly follows a put of its key has returned the value put,
\* in the evaluation namespace, after one earlier operation
C2_Witness ==
    /\ threads = {"T1"}
    /\ GetDone("T1")
    /\ thr["T1"].afterPut = 2
    /\ thr["T1"].ret = 2
    /\ thr["T1"].ns = "evaluation"
    /\ ops = 3

\* C3: a get of k that starts after put(k, v) has returned, with no later put
\* or clear of k and the TTL not elapsed, returns v even when another
\* thread's get of k overlapped that put.
C3_GetAfterPutSeesValue ==
    \A t \in Threads :
        (/\ GetDone(t)
         /\ thr[t].expect # None
         /\ now < lastPut[thr[t].ns][thr[t].k].at + default_expiry)
            => thr[t].ret = thr[t].expect

\* C4: after a get of a key whose stored entry is older than default_expiry,
\* that entry is no longer in the store, so get_cache_stats counts it neither
\* in cache_size nor in expired_entries.
C4_GetEvictsExpired ==
    \A t \in Threads :
        GetDone(t) /\ thr[t].sawExpired
            => /\ generate_key(thr[t].ns, thr[t].k) \notin DOMAIN cache
               /\ generate_key(thr[t].ns, thr[t].k) \notin ExpiredKeys

(***************************************************************************)
(* Properties of the controller.                                           *)
(***************************************************************************)
\* coroutine r takes a step of rewrite_and_evaluate_text
HandlerStep(r) == InFlight(r) /\ task'[r].pc # task[r].pc
\* the requests in slots r and q were in flight together
Concurrent(r, q) == task[r].n \in task[q].among \/ task[q].n \in task[r].among
\* the request in slot r got as far as reading its brand's signature
SignatureObtained(r) == task[r].signature # NoText

\* C5: in rewrite_and_evaluate_text, when the resolved brand already has a
\* signature at the start of the call, no step of the call invokes
\* analyze_tone and every step leaves that brand's signature record
\* (signature, created_at, version) as it was; this for every call.
C5_ExistingSignatureIsReused ==
    [][\A r \in Tasks :
          HandlerStep(r) =>
             LET before == IF task[r].pc = "pending" THEN brand_signatures
                           ELSE task[r].sigsBefore
                 b == task'[r].brand
             IN b \in DOMAIN before =>
                   /\ task'[r].nAnalyze = 0
                   /\ task'[r].pc # "analyzing"
                   /\ b \in DOMAIN brand_signatures'
                   /\ brand_signatures'[b] = before[b]]_vars

\* a second rewrite-and-evaluate call on a brand, with another text, has
\* ended without an analysis, two evaluations being stored for the brand
C5_Witness ==
    \E r \in Tasks :
        /\ task[r].pc = "done" /\ task[r].n = 2 /\ task[r].nAnalyze = 0
        /\ ~task[r].unsigned
        /\ Len(created) = 2
        /\ evaluations[created[1]].brand_id = evaluations[created[2]].brand_id
        /\ evaluations[created[1]].text # evaluations[created[2]].text
        /\ brand_signatures[task[r].brand].signature = task[r].signature

\* C6: two rewrite-and-evaluate requests in flight together, for the same
\* brand id, with the same text, the brand having no signature when each
\* arrived (and nobody replacing the signature meanwhile), that both got a
\* signature: analyze_tone was invoked exactly once for the two, and both
\* used the same signature.
C6_ConcurrentRequestsAnalyzeOnce ==
    \A r, q \in Tasks :
        ( /\ r # q /\ Concurrent(r, q)
          /\ task[r].brand_id # NoBrand /\ task[r].brand_id = task[q].brand_id
          /\ task[r].unsigned /\ task[q].unsigned
          /\ task[r].sigStable /\ task[q].sigStable
          /\ SignatureObtained(r) /\ SignatureObtained(q)
          /\ task[r].text = task[q].text )
        => /\ task[r].nAnalyze + task[q].nAnalyze = 1
           /\ task[r].signature = task[q].signature

\* two such requests have both ended with an evaluation
C6_Witness ==
    /\ task[1].pc = "done" /\ task[2].pc = "done"
    /\ Concurrent(1, 2)
    /\ task[1].brand_id = "acme" /\ task[2].brand_id = "acme"
    /\ task[1].unsigned /\ task[2].unsigned
    /\ task[1].sigStable /\ task[2].sigStable
    /\ task[1].text = task[2].text
    /\ task[1].nAnalyze + task[2].nAnalyze = 1
    /\ task[1].signature = task[2].signature

\* C7: a step at which rewrite_and_evaluate_text fails (a collaborator
\* raised) answers 500, leaves the evaluations map as it was when the call
\* started, and leaves the signature map with no entry it did not have then
\* except the brand's own, and that only if analyze_tone had returned.
C7_FailureStoresNothing ==
    [][\A r \in Tasks :
          (HandlerStep(r) /\ task'[r].pc = "failed") =>
             /\ task'[r].status = 500
             /\ evaluations' = task[r].evalsBefore
             /\ \A b \in DOMAIN brand_signatures' :
                   \/ /\ b \in DOMAIN task[r].sigsBefore
                      /\ brand_signatures'[b] = task[r].sigsBefore[b]
                   \/ b = task[r].brand /\ task[r].analysisOk]_vars

\* a call failed after its analysis had succeeded: the signature is there,
\* no evaluation is
C7_Witness ==
    \E r \in Tasks :
        /\ task[r].pc = "failed" /\ task[r].analysisOk /\ task[r].status = 500
        /\ task[r].brand \in DOMAIN brand_signatures
        /\ evaluations = <<>>

\* C8: an evaluate_text call whose evaluate_tone returned answers 200 with
\* the id of an evaluation that is stored and that get_evaluation returns.
C8_EvaluateTextStores ==
    (resp.op = "evaluate_text" /\ resp.evaluation # NoText) =>
        /\ resp.status = 200
        /\ resp.body.evaluation_id \in DOMAIN evaluations
        /\ get_evaluation(resp.body.evaluation_id).status = 200

\* C9: the ids of the evaluations created so far are pairwise distinct,
\* each is stored and returned by get_evaluation under its own id, and the
\* map holds as many evaluations as were created.
C9_EvaluationIdsDistinct ==
    /\ \A i, j \in 1..Len(created) : i # j => created[i] # created[j]
    /\ \A i \in 1..Len(created) :
          /\ get_evaluation(created[i]).status = 200
          /\ get_evaluation(created[i]).body.evaluation_id = created[i]
    /\ Cardinality(DOMAIN evaluations) = Len(created)

\* two requests in flight together have each created an evaluation, and
\* get_evaluation has just returned the second
C9_Witness ==
    /\ Len(created) = 2 /\ created[1] # created[2]
    /\ task[1].pc = "done" /\ task[2].pc = "done" /\ Concurrent(1, 2)
    /\ resp.op = "get_evaluation" /\ resp.status = 200
    /\ resp.arg = created[2]
    /\ resp.body.original_text = evaluations[created[2]].text

\* C10: every step of the controller keeps every stored evaluation, under
\* its id and with all its fields.
C10_EvaluationsAppendOnly ==
    [][\A id \in DOMAIN evaluations :
          id \in DOMAIN evaluations' /\ evaluations'[id] = evaluations[id]]_vars

\* an evaluation was stored, and a later store_signature for its brand has
\* left it in place
C10_Witness ==
    /\ created # <<>>
    /\ resp.op = "store_signature" /\ resp.after >= 1
    /\ evaluations[created[1]].brand_id = resp.arg
    /\ evaluations[created[1]].result = RewriteAndEvaluateResult

\* one of the single-step handlers serves a request for operation op
ServedStep(op) == ncall' = ncall + 1 /\ resp'.op = op

\* C11: get_signature for a brand id without a stored signature answers 404
\* SIGNATURE_NOT_FOUND, get_evaluation for an id without a stored evaluation
\* answers 404 EVALUATION_NOT_FOUND, and both leave the brands, signatures
\* and evaluations maps as they were.
C11_MissingIsNotFound ==
    [][/\ (ServedStep("get_signature") /\ resp'.arg \notin DOMAIN brand_signatures) =>
             /\ resp'.status = 404 /\ resp'.code = "SIGNATURE_NOT_FOUND"
             /\ UNCHANGED <<brands, brand_signatures, evaluations>>
       /\ (ServedStep("get_evaluation") /\ resp'.arg \notin DOMAIN evaluations) =>
             /\ resp'.status = 404 /\ resp'.code = "EVALUATION_NOT_FOUND"
             /\ UNCHANGED <<brands, brand_signatures, evaluations>>]_vars

\* get_signature has just answered 404 for a brand that is registered and has
\* an evaluation, but whose signature is missing from the map
C11_Witness ==
    /\ resp.op = "get_signature" /\ resp.status = 404
    /\ resp.arg \notin DOMAIN brand_signatures
    /\ brands # <<>> /\ evaluations # <<>>

\* C12: a rewrite_and_evaluate_text call for a brand without a signature calls
\* analyze_tone, rewrite_with_signature and evaluate_tone once each, in that
\* order: rewrite with the request's text and the signature analyze gave,
\* evaluate with the text, rewrite's output and that signature; the response
\* has the text, the rewritten text, the brand and an evaluation id that was
\* not in use before.
C12_FreshBrandCallsInOrder ==
    [][\A r \in Tasks :
         (/\ HandlerStep(r) /\ task'[r].pc = "done"
          /\ task[r].brand \notin DOMAIN task[r].sigsBefore) =>
            LET rec == task[r]
                c == rec.calls
            IN /\ Len(c) = 3
               /\ c[1].fn = "analyze_tone" /\ c[1].args = <<rec.text>>
               /\ c[2].fn = "rewrite_with_signature"
               /\ c[2].args = <<rec.text, c[1].out>>
               /\ c[3].fn = "evaluate_tone"
               /\ c[3].args = <<rec.text, c[2].out, c[1].out>>
               /\ task'[r].status = 200
               /\ task'[r].text = rec.text
               /\ task'[r].rewritten = c[2].out
               /\ task'[r].brand = rec.brand /\ rec.brand \in DOMAIN brands'
               /\ task'[r].eval_id \in DOMAIN evaluations'
               /\ task'[r].eval_id \notin DOMAIN rec.evalsBefore]_vars

C12_Witness ==
    \E r \in Tasks :
        /\ task[r].pc = "responding"
        /\ task[r].brand \notin DOMAIN task[r].sigsBefore
        /\ Len(task[r].calls) = 3
        /\ task[r].evalsBefore # <<>>

\* C13: two answered rewrite_and_evaluate_text requests with the same text on
\* the same brand with the same signature, within the TTL of each other,
\* called the rewrite collaborator once between them: the later one reused
\* the cached rewrite.
C13_SameRewriteCalledOnce ==
    \A r, q \in Tasks :
        (/\ r # q
         /\ task[r].pc = "done" /\ task[q].pc = "done"
         /\ task[r].text = task[q].text
         /\ task[r].brand = task[q].brand
         /\ task[r].signature = task[q].signature
         /\ ~is_expired(task[r].timestamp) /\ ~is_expired(task[q].timestamp)) =>
            task[r].nRewrite + task[q].nRewrite = 1

\* a rewrite_text call of coroutine c that directly follows a completed
\* rewrite_text call with the same arguments which went to the chain and
\* returned, while that call's entry is within its TTL
SecondRewrite(c) ==
    LET rec == co[c] IN
    /\ rec.op = "rewrite_text" /\ rec.pc \in {"awaiting", "done"}
    /\ rec.prev.op = "rewrite_text" /\ rec.prev.args = rec.args
    /\ rec.prev.invoked /\ ~rec.prev.raised
    /\ rec.began <= rec.prev.at + default_expiry

\* C14: of two rewrite_text calls in sequence with the same text, signature
\* and keywords, within the TTL and with no clear between them, only the first
\* invokes the rewrite chain; the second returns from the cache what the
\* first returned.
C14_SecondRewriteServedFromCache ==
    \A c \in Coros :
        SecondRewrite(c) =>
            /\ co[c].pc = "done"
            /\ ~co[c].invoked /\ ~co[c].raised
            /\ co[c].ret = co[c].prev.ret

C14_Witness ==
    \E c \in Coros :
        /\ SecondRewrite(c)
        /\ co[c].pc = "done"
        /\ co[c].began > co[c].prev.at
        /\ co[c].ret # <<>>

\* C15: an analyze_tone or evaluate_text call whose chain failed, or gave
\* output that cannot be parsed, raises: it returns nothing and puts nothing
\* in the cache.
C15_UnparsedOutputRaises ==
    \A c \in Coros :
        (/\ co[c].pc = "done" /\ co[c].invoked
         /\ co[c].op \in {"analyze_tone", "evaluate_text"}
         /\ co[c].content.kind \in {"text", "array", "raised"}) =>
            /\ co[c].raised
            /\ co[c].ret = Nothing
            /\ ~co[c].stored
            /\ generate_key(co[c].ns, co[c].key) \notin DOMAIN cache

\* the error code the failure of each collaborator is to be surfaced with
ErrorCodeOf ==
    [analyzing |-> "ANALYSIS_ERROR", rewriting |-> "REWRITE_ERROR",
     evaluating |-> "EVALUATION_ERROR"]

\* C16: in rewrite_and_evaluate_text a failure of the analysis, the rewrite
\* and the evaluation collaborator are answered with three different error
\* codes, one per collaborator.
C16_FailureKindsHaveOwnCodes ==
    [][\A r \in Tasks :
         (/\ HandlerStep(r) /\ task'[r].pc = "failed"
          /\ task[r].pc \in DOMAIN ErrorCodeOf) =>
            task'[r].code = ErrorCodeOf[task[r].pc]]_vars

\* C17: store_signature(b, s) leaves brand b with signature s and a created_at
\* of the time of the store, which get_signature(b) called next returns,
\* whether or not b had a signature; no collaborator is called and no other
\* brand's signature changes.
C17_StoreSignatureThenGet ==
    [][\A b \in BrandIds :
          (ServedStep("store_signature") /\ resp'.arg = b) =>
             LET got == get_signature(b)'
             IN
             /\ got.status = 200
             /\ got.body.brand_id = b
             /\ got.body.signature = resp'.signature
             /\ got.body.created_at = now
             /\ DOMAIN brand_signatures' = DOMAIN brand_signatures \cup {b}
             /\ \A other \in DOMAIN brand_signatures \ {b} :
                    brand_signatures'[other] = brand_signatures[other]
             /\ \A r \in Tasks :
                    /\ task'[r].nAnalyze = task[r].nAnalyze
                    /\ task'[r].nRewrite = task[r].nRewrite
                    /\ task'[r].calls = task[r].calls
                    /\ task'[r].pc = task[r].pc]_vars

\* a signature has just been stored over an older one, another brand having
\* a signature too
C17_Witness ==
    /\ resp.op = "store_signature"
    /\ resp.arg \in DOMAIN brand_signatures
    /\ brand_signatures[resp.arg].signature = resp.signature
    /\ \E r \in Tasks :
          /\ task[r].pc = "done" /\ task[r].brand = resp.arg
          /\ task[r].signature # resp.signature
    /\ \E other \in DOMAIN brand_signatures : other # resp.arg
    /\ now > 0

\* thread t takes the step of clear_cache that deletes from the store
ClearStep(t) == thr[t].pc = "clr_body" /\ thr'[t].pc = "clr_lru_a"

\* C18: clear_cache(prefix) removes from the store every entry of that
\* namespace and leaves every other entry with its value and insertion time;
\* clear_cache() without a prefix removes every entry.  A get that directly
\* follows the clear returns None for a key the clear covered, and the stored
\* value for a key of another namespace whose TTL has not elapsed.
C18_ClearRemovesItsNamespaceOnly ==
    /\ [][\A t \in Threads : ClearStep(t) =>
             LET prefix == thr[t].prefix IN
             /\ \A key \in DOMAIN cache :
                   IF prefix = NoPrefix \/ key.prefix = prefix
                   THEN key \notin DOMAIN cache'
                   ELSE key \in DOMAIN cache' /\ cache'[key] = cache[key]
             /\ DOMAIN cache' \subseteq DOMAIN cache]_vars
    /\ [](\A t \in Threads :
             (threads = {t} /\ GetDone(t) /\ thr[t].afterClear # NotCleared) =>
                IF thr[t].afterClear \in {NoPrefix, thr[t].ns}
                THEN thr[t].ret = None
                ELSE (/\ thr[t].expect # None
                      /\ now < lastPut[thr[t].ns][thr[t].k].at + default_expiry) =>
                         thr[t].ret = thr[t].expect)

\* a get that directly follows clear_cache("analysis") has returned the
\* value put for its key of the evaluation namespace before the clear
C18_Witness ==
    /\ threads = {"T1"}
    /\ GetDone("T1")
    /\ thr["T1"].afterClear = "analysis"
    /\ thr["T1"].ns = "evaluation"
    /\ thr["T1"].expect = 2 /\ thr["T1"].ret = 2

\* C19: when a put of a key and another thread's clear_cache of a different
\* namespace have run concurrently and both have returned, a get of the key
\* that starts then, within the TTL, returns the value put.
C19_ClearRacingPutKeepsIt ==
    \A t \in Threads :
        (/\ GetDone(t) /\ thr[t].afterRace
         /\ now < lastPut[thr[t].ns][thr[t].k].at + default_expiry) =>
            /\ thr[t].ret # None
            /\ thr[t].ret = lastPut[thr[t].ns][thr[t].k].v

C19_Witness ==
    \E t \in Threads :
        /\ GetDone(t) /\ thr[t].afterRace
        /\ thr[t].ret = 2
        /\ now < lastPut[thr[t].ns][thr[t].k].at + default_expiry

C21_StoredResultIsCollaborators ==
    \A r \in Tasks :
        task[r].pc = "responding" =>
            \A other \in EvalOutputs \ {task[r].calls[Len(task[r].calls)].out} :
                evaluations[task[r].eval_id].result # ResultFor(other)

\* C22: for every evaluation a rewrite_and_evaluate_text call has created and
\* answered with, get_evaluation of its id returns the brand id, original
\* text, rewritten text, result and timestamp that call's response had.
C22_GetReturnsTheResponse ==
    \A r \in Tasks :
        task[r].pc = "done" =>
            LET got == get_evaluation(task[r].eval_id) IN
            /\ got.status = 200
            /\ got.body.evaluation_id = task[r].eval_id
            /\ got.body.brand_id = task[r].brand
            /\ got.body.original_text = task[r].text
            /\ got.body.rewritten_text = task[r].rewritten
            /\ got.body.result = RewriteAndEvaluateResult
            /\ got.body.timestamp = task[r].timestamp

\* coroutine c has returned from a call that was served from the cache
ServedFromCache(c) == co[c].pc = "done" /\ ~co[c].invoked /\ ~co[c].raised

\* C23: what rewrite_text has cached is never what an evaluate_text call is
\* served, and what evaluate_text has cached is never what a rewrite_text
\* call is served.
C23_RewriteAndEvaluateKeptApart ==
    \A c \in Coros :
        (ServedFromCache(c) /\ co[c].op \in {"rewrite_text", "evaluate_text"}) =>
            co[c].from.op = co[c].op

\* C24: a rewrite_text or evaluate_text call is served from the cache only
\* what a call with exactly its own three arguments has cached.
C24_KeySeparatesInputs ==
    \A c \in Coros :
        (/\ ServedFromCache(c) /\ co[c].op \in {"rewrite_text", "evaluate_text"}
         /\ co[c].from.op = co[c].op) =>
            co[c].from.args = co[c].args
\* C25: a get that finds nothing memoized (it directly follows a clear of
\* another prefix) and starts exactly default_expiry seconds after the put of
\* its key returns None: the entry is live only while now - inserted_at is
\* less than the TTL.
C25_GetAtTtlIsAbsent ==
    \A t \in Threads :
        (/\ threads = {t}
         /\ GetDone(t)
         /\ thr[t].due
         /\ thr[t].afterClear \notin {NotCleared, NoPrefix, thr[t].ns})
            => thr[t].ret = None
\* the step in which rewrite_and_evaluate_text resolves the brand of request r
ResolveStep(r) == task[r].pc = "pending" /\ task'[r].pc # "pending"

\* C26: _get_or_create_brand returns a registered brand_id's record and
\* leaves the registry as it is, whatever brand_name is supplied; registers
\* an unknown brand_id under exactly that id; registers a new id when no
\* brand_id is given, modifying no registered brand; a registered record is
\* named brand_name when supplied and "Brand <id>" otherwise.
C26_BrandResolution ==
    [][\A r \in Tasks :
          ResolveStep(r) =>
              LET brand_id == task[r].brand_id
                  brand_name == task'[r].brand_name
                  b == task'[r].brand
              IN
              IF brand_id # NoBrand /\ brand_id \in DOMAIN brands
              THEN b = brand_id /\ brands' = brands
              ELSE /\ brand_id # NoBrand => b = brand_id
                   /\ brand_id = NoBrand => b \notin DOMAIN brands \cup BrandIds
                   /\ DOMAIN brands' = DOMAIN brands \cup {b}
                   /\ \A x \in DOMAIN brands \ {b} : brands'[x] = brands[x]
                   /\ brands'[b].brand_id = b
                   /\ brands'[b].name = IF brand_name # NoName THEN <<"", brand_name>>
                                         ELSE <<"Brand ", b>>]_vars

\* a request naming a registered brand, which got a default name when it was
\* registered, has supplied another name and has been resolved
C26_Witness ==
    \E r \in Tasks :
        /\ task[r].pc \in {"analyzing", "rewriting"}
        /\ task[r].brand_id \in BrandIds
        /\ task[r].brand = task[r].brand_id
        /\ task[r].brand_name = "Acme Corp"
        /\ brands[task[r].brand].name = <<"Brand ", task[r].brand>>
\* C28: every brand that has a stored signature is a registered brand, after
\* any sequence of store_signature and rewrite_and_evaluate_text calls.
C28_SignedBrandsAreRegistered ==
    DOMAIN brand_signatures \subseteq DOMAIN brands

\* C29: a rewrite_and_evaluate_text call that fails because a collaborator
\* raised leaves the registry without the brand it registered: the id
\* generated for a call without brand_id, which no earlier call can have
\* registered, is not a key of brands after the failure.
C29_FailureRegistersNoBrand ==
    [][\A r \in Tasks :
          (/\ HandlerStep(r)
           /\ task[r].pc \in {"analyzing", "rewriting", "evaluating"}
           /\ task'[r].pc = "failed"
           /\ task[r].brand_id = NoBrand) =>
              task[r].brand \notin DOMAIN brands']_vars
\* thread t is inside a call / at a statement inside `with self._lock:`
InCall(t) == thr[t].pc \notin {"idle", "done"}
UnderLock(t) == thr[t].pc \in {"get_body", "put_write", "clr_body", "st_body"}

\* C27: a thread holds the lock only at the map read or write inside a
\* `with self._lock:` block, so never where it calls a getter, clears a memo
\* or is about to acquire the lock; and every get, put, clear and stats call
\* that is in progress completes, the lock being free once it has.
C27_LockHeldOnlyForMapAccess ==
    /\ [](\A t \in Threads : lock = t => UnderLock(t))
    /\ \A t \in Threads : InCall(t) ~> (thr[t].pc = "done" /\ lock # t)

\* a get whose lookup missed is waiting for the lock while the other thread
\* holds it inside a put of the same key
C27_Witness ==
    /\ lock = "T1"
    /\ thr["T1"].op = "put" /\ thr["T1"].pc = "put_write"
    /\ thr["T2"].op = "get" /\ thr["T2"].pc = "get_lock"
    /\ thr["T1"].ns = thr["T2"].ns /\ thr["T1"].k = thr["T2"].k
====
